---- MODULE Spec2Model ----
(***************************************************************************)
(* Model of the Deep-Research core: SearchEngine.search (retry loop),      *)
(* ContentExtractor.extract_content / extract_multiple (thread pool and    *)
(* per-URL cache), AIAnalyzer (analysis, follow-up queries, synthesis) and *)
(* ResearchOrchestrator.conduct_research (the round loop).                 *)
(*                                                                         *)
(* Encodings.  A URL is a natural number whose order stands for the string *)
(* order of the URL; 0 is the empty string ''.  A page text is a natural   *)
(* number, 0 is the empty text ''.  Python None is -1.  A search record is *)
(* reduced to its url (title and snippet never influence control flow).    *)
(* A JSON value found in a model answer is abstracted to its kind and its  *)
(* size (length of an array, string or object; value of a number); the     *)
(* elements of an array are strings.  BadRecord marks the position of a    *)
(* provider answer at which iterating or converting the records raises.    *)
(*                                                                         *)
(* The outside world (search provider, web pages, model backend) is the    *)
(* record env, fixed at the start of a run: each action draws the answer   *)
(* the world gives from the menu env offers.  Init ranges over a family of *)
(* worlds, each rich in one respect (round loop, analysis answers,         *)
(* follow-up answers, failing provider, url sets, concurrent extraction).  *)
(* A thread of the extraction pool takes a step per action; the cache      *)
(* check and the cache write of extract_content are separate steps.        *)
(***************************************************************************)
EXTENDS Integers, Sequences, FiniteSets, TLC

\* ------------------------------------------------------------------ bounds
MaxRounds == 3
MaxUrl == 2
MaxText == 2
MaxResults == 2
MaxWorkers == 2
MaxLen == 4

\* ------------------------------------------------------- program constants
MAX_RETRIES == 3
RETRY_DELAY == 1
EXTRACT_LIMIT == 10
FOLLOW_UP_LIMIT == 3

None == -1
NoUrl == 0
URLs == 0..MaxUrl
Texts == 0..MaxText

\* outcomes of one fetch-and-parse attempt of extract_content, besides a text
NetErr == -2
ParseErr == -3
NoBody == -4

\* raw provider records, besides a record with href = u >= 0
NoHref == -1
BadRecord == -2

\* ------------------------------------------------------------ Python helpers
RECURSIVE sorted(_)
sorted(S) ==
    IF S = {} THEN <<>>
    ELSE LET m == CHOOSE x \in S : \A y \in S : x <= y
         IN  <<m>> \o sorted(S \ {m})

RECURSIVE Pow2(_)
\* mutant: the delay does not grow
Pow2_m(n) == 1
\* 2 ** n
Pow2(n) == IF n <= 0 THEN 1 ELSE 2 * Pow2(n - 1)

Min(a, b) == IF a < b THEN a ELSE b

Range(s) == {s[i] : i \in 1..Len(s)}

\* ------------------------------------------------------------- JSON values
FV(k, n) == [k |-> k, n |-> n]
Absent == FV("absent", 0)

\* Python truthiness of the value dict.get(field, []) evaluates to
Truthy(v) == v.k \in {"arr", "str", "num", "obj"} /\ v.n > 0

Dict(kf, su, to, ga) == [key_findings |-> kf, summary |-> su, topics |-> to, gaps |-> ga]
EmptyDict == Dict(Absent, Absent, Absent, Absent)

\* a raw answer of the model backend: k = "fail" (the call raised), "text"
\* (not JSON, len characters), or the kind of the JSON value it parses to
Raw(k, len, d) == [k |-> k, len |-> len, d |-> d]

Return(v) == [raised |-> FALSE, value |-> v]
Raise(v) == [raised |-> TRUE, value |-> v]

\* mutant: the degraded analysis names the raw text as a gap
analyze_search_results_m(raw) ==
    IF raw.k = "fail" THEN Raise(EmptyDict)
    ELSE IF raw.k = "text"
         THEN Return(Dict(FV("arr", 1), FV("str", raw.len), FV("arr", 0), FV("arr", 1)))
    ELSE IF raw.k # "obj" THEN Raise(EmptyDict)
    ELSE IF raw.d.key_findings.k \in {"num", "null"} THEN Raise(EmptyDict)
    ELSE Return(raw.d)
\* AIAnalyzer.analyze_search_results, from the model's raw answer on
analyze_search_results(raw) ==
    IF raw.k = "fail" THEN Raise(EmptyDict)
    ELSE IF raw.k = "text"
         THEN Return(Dict(FV("arr", 1), FV("str", raw.len), FV("arr", 0), FV("arr", 0)))
    ELSE IF raw.k # "obj" THEN Raise(EmptyDict)
    ELSE IF raw.d.key_findings.k \in {"num", "null"} THEN Raise(EmptyDict)
    ELSE Return(raw.d)

\* ----------------------------------------------------------------- queries
Query(src, i) == [src |-> src, i |-> i]
Topic == Query("topic", 0)
QuerySeq(src, n) == [i \in 1..n |-> Query(src, i)]

\* AIAnalyzer.generate_follow_up_queries, from the model's raw answer on.
\* A str answer is sliced to a str; the caller then iterates its characters.
generate_follow_up_queries(raw, analysis) ==
    IF raw.k \in {"fail", "none"} THEN Raise(<<>>)
    ELSE IF raw.k = "text"
         THEN LET gaps == analysis.gaps
              IN  IF ~Truthy(gaps) THEN Return(<<>>)
                  ELSE IF gaps.k = "arr"
                       THEN Return(QuerySeq("gap", Min(gaps.n, FOLLOW_UP_LIMIT)))
                  ELSE IF gaps.k = "str"
                       THEN Return(QuerySeq("gapchar", Min(gaps.n, FOLLOW_UP_LIMIT)))
                  ELSE Raise(<<>>)
    ELSE IF raw.k = "arr" THEN Return(QuerySeq("model", Min(raw.len, FOLLOW_UP_LIMIT)))
    ELSE IF raw.k = "str" THEN Return(QuerySeq("char", Min(raw.len, FOLLOW_UP_LIMIT)))
    ELSE Raise(<<>>)

\* mutant: the next round searches the topic again
_generate_queries_m(raw, previous_analysis) == <<Topic>>
\* ResearchOrchestrator._generate_queries
_generate_queries(raw, previous_analysis) ==
    LET r == generate_follow_up_queries(raw, previous_analysis)
    IN  IF r.raised THEN <<>> ELSE r.value

\* --------------------------------------------------------------- synthesis
\* mutant: the set is started afresh for each round
SourcesOf_m(all_rounds) ==
    IF all_rounds = <<>> THEN {}
    ELSE LET last == all_rounds[Len(all_rounds)].search_results
         IN  {last[j].url : j \in 1..Len(last)} \ {NoUrl}
\* the urls collected from the rounds' search records (truthy urls only)
SourcesOf(all_rounds) ==
    UNION {{all_rounds[i].search_results[j].url : j \in 1..Len(all_rounds[i].search_results)} :
           i \in 1..Len(all_rounds)} \ {NoUrl}

Report(kind, heading, murls, appended, section, summaries) ==
    [kind |-> kind, heading |-> heading, murls |-> murls, appended |-> appended,
     section |-> section, summaries |-> summaries]
NoReport == Report("none", FALSE, {}, FALSE, <<>>, <<>>)

\* the fallback report: one summary per round, in round order
SummariesOf(all_rounds) == [i \in 1..Len(all_rounds) |-> all_rounds[i].analysis.summary]

\* AIAnalyzer.synthesize_research, from the model's raw answer on.  The raw
\* answer says whether its text has a references heading and which urls the
\* model listed itself.
synthesize_research(raw, all_rounds) ==
    IF \E i \in 1..Len(all_rounds) : all_rounds[i].analysis.key_findings.k = "obj"
    THEN Raise(NoReport)
    ELSE IF raw.k = "text"
    THEN IF raw.heading
         THEN Return(Report("model", TRUE, raw.murls, FALSE, <<>>, <<>>))
         ELSE Return(Report("model", FALSE, raw.murls, TRUE,
                            sorted(SourcesOf(all_rounds)), <<>>))
    ELSE IF \E i \in 1..Len(all_rounds) :
                all_rounds[i].analysis.summary.k \notin {"str", "absent"}
    THEN Raise(NoReport)
    ELSE Return(Report("fallback", FALSE, {}, FALSE, <<>>, SummariesOf(all_rounds)))

SynthRaw(k, heading, murls) == [k |-> k, heading |-> heading, murls |-> murls]

\* ------------------------------------------------------------------- state
VARIABLES
    env,                \* what the outside world may do (fixed for a run)
    pc, round_num, rounds, all_sources, queries, qi, all_search_results,
    extracted, result,  \* conduct_research
    s_pc, s_results, retry_count, s_attempts, s_sleeps, s_ret,   \* search
    throttled,          \* history: time.sleep(0.5) since the last search began
    sm_results,         \* search_multiple: results, a mapping from query
    cache, tasks, x_results,    \* ContentExtractor and one extract_multiple
    firstText,          \* history: text of the first successful extract per url
    a_call, y_call,     \* history: last analyze / synthesize call
    f_call,             \* history: last generate_follow_up_queries call
    cb_raised,          \* history: progress_callback raised
    y_count,            \* history: number of synthesize_research calls
    announced           \* history: round indices notified at round start

orchVars == <<pc, round_num, rounds, all_sources, queries, qi, all_search_results,
              extracted, result>>
searchVars == <<s_pc, s_results, retry_count, s_attempts, s_sleeps, s_ret,
                throttled, sm_results>>
extractVars == <<cache, tasks, x_results, firstText>>
callVars == <<a_call, y_call, f_call, cb_raised, y_count, announced>>
vars == <<env, orchVars, searchVars, extractVars, callVars>>

Record(u) == [url |-> u]
NoResult == [returned |-> FALSE, final_report |-> NoReport, rounds |-> <<>>,
             all_sources |-> <<>>, total_rounds |-> 0]
\* mutant: the round is numbered with the 0-based loop index
ResearchRound_m(n, q, sr, ec, an) ==
    [round_number |-> n - 1, queries |-> q, search_results |-> sr,
     extracted_contents |-> ec, analysis |-> an]
ResearchRound(n, q, sr, ec, an) ==
    [round_number |-> n, queries |-> q, search_results |-> sr,
     extracted_contents |-> ec, analysis |-> an]
EmptyMap == [u \in URLs |-> None]
Keys(m) == {u \in URLs : m[u] # None}
Task(u) == [url |-> u, st |-> "queued", collected |-> FALSE, retry_count |-> 0,
            ret |-> None, fetches |-> 0, sleeps |-> <<>>, prior |-> None,
            last |-> "nothing"]
NoCall == [made |-> FALSE, raw |-> Raw("fail", 0, EmptyDict), out |-> Raise(EmptyDict)]
NoFollowUp == [made |-> FALSE, round_num |-> 0, analysis |-> EmptyDict,
               raw |-> Raw("fail", 0, EmptyDict), out |-> Raise(<<>>)]
NoSynth == [made |-> FALSE, raw |-> SynthRaw("fail", FALSE, {}), out |-> Raise(NoReport)]

InitState ==
    /\ pc = (IF env.entry = "search_multiple" THEN "sm_call" ELSE "round_start")
    /\ round_num = 0 /\ rounds = <<>> /\ all_sources = {}
    /\ queries = <<>> /\ qi = 0 /\ all_search_results = <<>>
    /\ extracted = EmptyMap /\ result = NoResult
    /\ s_pc = "idle" /\ s_results = <<>> /\ retry_count = 0 /\ s_attempts = 0
    /\ s_sleeps = <<>> /\ s_ret = <<>>
    /\ throttled = FALSE /\ sm_results = <<>>
    /\ cache = EmptyMap /\ tasks = <<>> /\ x_results = EmptyMap
    /\ firstText = EmptyMap
    /\ a_call = NoCall /\ y_call = NoSynth /\ f_call = NoFollowUp
    /\ cb_raised = FALSE /\ y_count = 0 /\ announced = {}

\* ---------------------------------------------------- conduct_research loop
\* for round_num in range(max_rounds): one more iteration; the round-start
\* notification progress_callback(..., round_num + 1, max_rounds) returns
RoundStart ==
    /\ pc = "round_start" /\ round_num < env.max_rounds
    /\ pc' = "query_selection"
    /\ announced' = IF env.callback = "none" THEN announced
                    ELSE announced \cup {round_num + 1}
    /\ UNCHANGED <<env, round_num, rounds, all_sources, queries, qi, all_search_results,
                   extracted, result, searchVars, extractVars, a_call, y_call, f_call,
                   cb_raised, y_count>>

\* range(max_rounds) is exhausted without a break
LoopExhausted ==
    /\ pc = "round_start" /\ round_num >= env.max_rounds
    /\ pc' = "synthesizing"
    /\ UNCHANGED <<env, round_num, rounds, all_sources, queries, qi, all_search_results,
                   extracted, result, searchVars, extractVars, callVars>>

\* mutant: the round is started whatever the queries are
SelectQueries_m(q) ==
    /\ queries' = q
    /\ pc' = "searching" /\ qi' = 1 /\ all_search_results' = <<>>
    /\ UNCHANGED <<env, round_num, rounds, all_sources, extracted, result,
                   searchVars, extractVars, a_call, y_call, cb_raised, y_count, announced>>
\* queries of the round; an empty list ends the loop
SelectQueries(q) ==
    /\ queries' = q
    /\ IF q = <<>>
       THEN pc' = "synthesizing" /\ UNCHANGED <<qi, all_search_results>>
       ELSE pc' = "searching" /\ qi' = 1 /\ all_search_results' = <<>>
    /\ UNCHANGED <<env, round_num, rounds, all_sources, extracted, result,
                   searchVars, extractVars, a_call, y_call, cb_raised, y_count, announced>>

\* mutant: the first round starts from an empty list of queries
QuerySelectionFirst_m ==
    /\ pc = "query_selection" /\ round_num = 0
    /\ SelectQueries(<<>>)
    /\ UNCHANGED f_call
\* queries = [current_query]
QuerySelectionFirst ==
    /\ pc = "query_selection" /\ round_num = 0
    /\ SelectQueries(<<Topic>>)
    /\ UNCHANGED f_call

\* mutant: an exception of generate_follow_up_queries is not caught
QuerySelectionFollowUp_m ==
    /\ pc = "query_selection" /\ round_num > 0
    /\ \E raw \in env.followup :
          LET analysis == rounds[Len(rounds)].analysis
              out == generate_follow_up_queries(raw, analysis)
          IN  /\ f_call' = [made |-> TRUE, round_num |-> round_num,
                            analysis |-> analysis, raw |-> raw, out |-> out]
              /\ IF out.raised
                 THEN /\ pc' = "raised"
                      /\ UNCHANGED <<env, round_num, rounds, all_sources, queries, qi,
                                     all_search_results, extracted, result, searchVars,
                                     extractVars, a_call, y_call, cb_raised, y_count, announced>>
                 ELSE SelectQueries(out.value)
\* queries = self._generate_queries(topic, rounds[-1].analysis, round_num)
QuerySelectionFollowUp ==
    /\ pc = "query_selection" /\ round_num > 0
    /\ \E raw \in env.followup :
          LET analysis == rounds[Len(rounds)].analysis
          IN  /\ f_call' = [made |-> TRUE, round_num |-> round_num,
                            analysis |-> analysis, raw |-> raw,
                            out |-> generate_follow_up_queries(raw, analysis)]
              /\ SelectQueries(_generate_queries(raw, analysis))

\* ------------------------------------------------------ SearchEngine.search
\* one provider call: it raises, or yields raw records (at most max_results)
Attempt(raises, recs) == [raises |-> raises, recs |-> recs]

\* index of the first raw record whose conversion raises, 0 if none
FirstBad(recs) ==
    IF \E i \in 1..Len(recs) : recs[i] = BadRecord
    THEN CHOOSE i \in 1..Len(recs) :
            recs[i] = BadRecord /\ \A j \in 1..(i - 1) : recs[j] # BadRecord
    ELSE 0

\* {'url': result.get('href', '')}
Convert(r) == Record(IF r = NoHref THEN NoUrl ELSE r)
ConvertAll(recs) == [i \in 1..Len(recs) |-> Convert(recs[i])]

\* the records appended to results before the attempt ends (normally or not)
Converted(o) ==
    IF o.raises THEN <<>>
    ELSE IF FirstBad(o.recs) = 0 THEN ConvertAll(o.recs)
    ELSE ConvertAll(SubSeq(o.recs, 1, FirstBad(o.recs) - 1))

Fails(o) == o.raises \/ FirstBad(o.recs) # 0

\* mutant: the records accumulated so far are returned
GiveUp_m(results) == results
\* the value returned once the last attempt has failed: return []
GiveUp(results) == <<>>

\* mutant: every url is collected, the empty one too
CollectSources_m(sources, results) ==
    sources \cup {results[i].url : i \in 1..Len(results)}
\* for result in results: if result.get('url'): all_sources.add(result['url'])
CollectSources(sources, results) ==
    sources \cup ({results[i].url : i \in 1..Len(results)} \ {NoUrl})

\* results = []; retry_count = 0
SearchCall ==
    /\ pc \in {"searching", "sm_searching"} /\ s_pc = "idle" /\ qi <= Len(queries)
    /\ s_pc' = "attempt" /\ s_results' = <<>> /\ retry_count' = 0
    /\ s_attempts' = 0 /\ s_sleeps' = <<>> /\ s_ret' = <<>>
    /\ throttled' = FALSE
    /\ UNCHANGED <<env, orchVars, sm_results, extractVars, callVars>>

\* an attempt that completes: return results
SearchAttemptOk ==
    /\ s_pc = "attempt" /\ retry_count < MAX_RETRIES
    /\ \E o \in env.provider :
          /\ ~Fails(o) /\ Len(o.recs) <= env.results_per_search
          /\ s_results' = s_results \o Converted(o)
          /\ s_ret' = s_results \o Converted(o)
    /\ s_attempts' = s_attempts + 1
    /\ s_pc' = "returned"
    /\ UNCHANGED <<env, orchVars, retry_count, s_sleeps, throttled, sm_results,
                   extractVars, callVars>>

\* mutant: the exception of the last attempt leaves search
SearchAttemptFail_m ==
    /\ s_pc = "attempt" /\ retry_count < MAX_RETRIES
    /\ \E o \in env.provider :
          /\ Fails(o) /\ Len(o.recs) <= env.results_per_search
          /\ s_results' = s_results \o Converted(o)
    /\ s_attempts' = s_attempts + 1
    /\ retry_count' = retry_count + 1
    /\ IF retry_count + 1 < MAX_RETRIES
       THEN /\ s_sleeps' = Append(s_sleeps, RETRY_DELAY * Pow2(retry_count))
            /\ UNCHANGED <<s_pc, s_ret, pc>>
       ELSE /\ pc' = "raised"
            /\ UNCHANGED <<s_pc, s_ret, s_sleeps>>
    /\ UNCHANGED <<env, round_num, rounds, all_sources, queries, qi, all_search_results,
                   extracted, result, throttled, sm_results, extractVars, callVars>>
\* an attempt that raises, in the provider or while converting its records
SearchAttemptFail ==
    /\ s_pc = "attempt" /\ retry_count < MAX_RETRIES
    /\ \E o \in env.provider :
          /\ Fails(o) /\ Len(o.recs) <= env.results_per_search
          /\ s_results' = s_results \o Converted(o)
    /\ s_attempts' = s_attempts + 1
    /\ retry_count' = retry_count + 1
    /\ IF retry_count + 1 < MAX_RETRIES
       THEN /\ s_sleeps' = Append(s_sleeps, RETRY_DELAY * Pow2(retry_count))
            /\ UNCHANGED <<s_pc, s_ret>>
       ELSE /\ s_ret' = GiveUp(s_results') /\ s_pc' = "returned"
            /\ UNCHANGED s_sleeps
    /\ UNCHANGED <<env, orchVars, throttled, sm_results, extractVars, callVars>>

\* back in conduct_research: extend the round's results, collect the sources
SearchReturn ==
    /\ pc = "searching" /\ s_pc = "returned"
    /\ all_search_results' = all_search_results \o s_ret
    /\ all_sources' = CollectSources(all_sources, s_ret)
    /\ s_pc' = "idle"
    /\ IF qi < Len(queries)
       THEN qi' = qi + 1 /\ UNCHANGED pc
       ELSE qi' = qi /\ pc' = "extract_call"
    /\ UNCHANGED <<env, round_num, rounds, queries, extracted, result,
                   s_results, retry_count, s_attempts, s_sleeps, s_ret,
                   throttled, sm_results, extractVars, callVars>>

\* ---------------------------------------------- SearchEngine.search_multiple
\* results = {}; for query in queries
SearchMultipleCall ==
    /\ pc = "sm_call"
    /\ \E q \in env.queries :
          /\ queries' = q
          /\ pc' = IF q = <<>> THEN "sm_done" ELSE "sm_searching"
    /\ qi' = 1 /\ sm_results' = <<>>
    /\ UNCHANGED <<env, round_num, rounds, all_sources, all_search_results, extracted,
                   result, s_pc, s_results, retry_count, s_attempts, s_sleeps, s_ret,
                   throttled, extractVars, callVars>>

\* results[query] = self.search(query, max_results); time.sleep(0.5)
SearchMultipleReturn ==
    /\ pc = "sm_searching" /\ s_pc = "returned"
    /\ sm_results' = [q \in DOMAIN sm_results \cup {queries[qi]} |->
                         IF q = queries[qi] THEN s_ret ELSE sm_results[q]]
    /\ throttled' = TRUE
    /\ s_pc' = "idle"
    /\ IF qi < Len(queries)
       THEN qi' = qi + 1 /\ UNCHANGED pc
       ELSE qi' = qi /\ pc' = "sm_done"
    /\ UNCHANGED <<env, round_num, rounds, all_sources, queries, all_search_results,
                   extracted, result, s_results, retry_count, s_attempts, s_sleeps,
                   s_ret, extractVars, callVars>>

\* ----------------------------------- ContentExtractor.extract_multiple
\* mutant: the url of every search record is extracted
UrlsToExtract_m(results) == [i \in 1..Len(results) |-> results[i].url]
\* urls_to_extract = [r['url'] for r in all_search_results[:10]]
UrlsToExtract(results) ==
    [i \in 1..Min(Len(results), EXTRACT_LIMIT) |-> results[i].url]

\* extract_multiple(urls_to_extract): every task is submitted to the executor
ExtractCall ==
    /\ pc = "extract_call"
    /\ tasks' = [i \in 1..Len(UrlsToExtract(all_search_results)) |->
                    Task(UrlsToExtract(all_search_results)[i])]
    /\ x_results' = EmptyMap
    /\ pc' = "extracting"
    /\ UNCHANGED <<env, round_num, rounds, all_sources, queries, qi, all_search_results,
                   extracted, result, searchVars, cache, firstText, callVars>>

Busy == {i \in 1..Len(tasks) : tasks[i].st \in {"started", "fetching"}}

\* mutant: every submitted task gets a thread of its own
TaskStart_m(i) ==
    /\ pc = "extracting" /\ tasks[i].st = "queued"
    /\ \A j \in 1..(i - 1) : tasks[j].st # "queued"
    /\ tasks' = [tasks EXCEPT ![i].st = "started", ![i].prior = firstText[tasks[i].url]]
    /\ UNCHANGED <<env, orchVars, searchVars, cache, x_results, firstText, callVars>>
\* a free worker takes the oldest queued task and calls extract_content(url)
TaskStart(i) ==
    /\ pc = "extracting" /\ tasks[i].st = "queued"
    /\ \A j \in 1..(i - 1) : tasks[j].st # "queued"
    /\ Cardinality(Busy) < env.max_workers
    /\ tasks' = [tasks EXCEPT ![i].st = "started", ![i].prior = firstText[tasks[i].url]]
    /\ UNCHANGED <<env, orchVars, searchVars, cache, x_results, firstText, callVars>>

\* if url in self.cache: return self.cache[url]
TaskCheckCache(i) ==
    /\ pc = "extracting" /\ tasks[i].st = "started"
    /\ IF cache[tasks[i].url] # None
       THEN tasks' = [tasks EXCEPT ![i].st = "done", ![i].ret = cache[tasks[i].url],
                                    ![i].last = "cached"]
       ELSE tasks' = [tasks EXCEPT ![i].st = "fetching"]
    /\ UNCHANGED <<env, orchVars, searchVars, cache, x_results, firstText, callVars>>

\* what one GET of url and the parsing of its answer may produce
FetchOutcomes(u) == IF u = NoUrl THEN {NetErr} ELSE env.pages[u]

\* the page is fetched and parsed: cache the text and return it
TaskFetchOk(i) ==
    /\ pc = "extracting" /\ tasks[i].st = "fetching"
    /\ \E t \in FetchOutcomes(tasks[i].url) \cap Texts :
          /\ cache' = [cache EXCEPT ![tasks[i].url] = t]
          /\ tasks' = [tasks EXCEPT ![i].st = "done", ![i].ret = t,
                                    ![i].fetches = @ + 1, ![i].last = "text"]
          /\ firstText' = IF firstText[tasks[i].url] = None
                          THEN [firstText EXCEPT ![tasks[i].url] = t]
                          ELSE firstText
    /\ UNCHANGED <<env, orchVars, searchVars, x_results, callVars>>

\* mutant: one more attempt is made before giving up
TaskFetchNetErr_m(i) ==
    /\ pc = "extracting" /\ tasks[i].st = "fetching"
    /\ NetErr \in FetchOutcomes(tasks[i].url)
    /\ IF tasks[i].retry_count + 1 <= MAX_RETRIES
       THEN tasks' = [tasks EXCEPT ![i].retry_count = @ + 1, ![i].fetches = @ + 1,
                         ![i].sleeps = Append(@, RETRY_DELAY * Pow2(tasks[i].retry_count)),
                         ![i].last = "neterr"]
       ELSE tasks' = [tasks EXCEPT ![i].retry_count = @ + 1, ![i].fetches = @ + 1,
                                    ![i].st = "done", ![i].ret = None,
                                    ![i].last = "neterr"]
    /\ UNCHANGED <<env, orchVars, searchVars, cache, x_results, firstText, callVars>>
\* requests.exceptions.RequestException: back off and retry, or give up
TaskFetchNetErr(i) ==
    /\ pc = "extracting" /\ tasks[i].st = "fetching"
    /\ NetErr \in FetchOutcomes(tasks[i].url)
    /\ IF tasks[i].retry_count + 1 < MAX_RETRIES
       THEN tasks' = [tasks EXCEPT ![i].retry_count = @ + 1, ![i].fetches = @ + 1,
                         ![i].sleeps = Append(@, RETRY_DELAY * Pow2(tasks[i].retry_count)),
                         ![i].last = "neterr"]
       ELSE tasks' = [tasks EXCEPT ![i].retry_count = @ + 1, ![i].fetches = @ + 1,
                                    ![i].st = "done", ![i].ret = None,
                                    ![i].last = "neterr"]
    /\ UNCHANGED <<env, orchVars, searchVars, cache, x_results, firstText, callVars>>

\* mutant: the failure is remembered in the cache as an empty text
TaskFetchNone_m(i) ==
    /\ pc = "extracting" /\ tasks[i].st = "fetching"
    /\ FetchOutcomes(tasks[i].url) \cap {ParseErr, NoBody} # {}
    /\ tasks' = [tasks EXCEPT ![i].st = "done", ![i].ret = None, ![i].fetches = @ + 1,
                              ![i].last = "unparsed"]
    /\ cache' = [cache EXCEPT ![tasks[i].url] = 0]
    /\ UNCHANGED <<env, orchVars, searchVars, x_results, firstText, callVars>>
\* no body in the page, or any other exception while parsing: return None
TaskFetchNone(i) ==
    /\ pc = "extracting" /\ tasks[i].st = "fetching"
    /\ FetchOutcomes(tasks[i].url) \cap {ParseErr, NoBody} # {}
    /\ tasks' = [tasks EXCEPT ![i].st = "done", ![i].ret = None, ![i].fetches = @ + 1,
                              ![i].last = "unparsed"]
    /\ UNCHANGED <<env, orchVars, searchVars, cache, x_results, firstText, callVars>>

\* if content: results[url] = content
Collected(res, t) ==
    IF t.ret # None /\ t.ret # 0 THEN [res EXCEPT ![t.url] = t.ret] ELSE res

\* for future in as_completed(future_to_url)
Collect(i) ==
    /\ pc = "extracting" /\ tasks[i].st = "done" /\ ~tasks[i].collected
    /\ x_results' = Collected(x_results, tasks[i])
    /\ tasks' = [tasks EXCEPT ![i].collected = TRUE]
    /\ UNCHANGED <<env, orchVars, searchVars, cache, firstText, callVars>>

\* mutant: extract_multiple returns once no task is waiting for a worker
ExtractReturn_m ==
    /\ pc = "extracting"
    /\ \A i \in 1..Len(tasks) : tasks[i].st # "queued"
    /\ extracted' = x_results
    /\ pc' = "analyzing"
    /\ UNCHANGED <<env, round_num, rounds, all_sources, queries, qi, all_search_results,
                   result, searchVars, extractVars, callVars>>
\* every future is collected: extract_multiple returns results
ExtractReturn ==
    /\ pc = "extracting"
    /\ \A i \in 1..Len(tasks) : tasks[i].collected
    /\ extracted' = x_results
    /\ pc' = "analyzing"
    /\ UNCHANGED <<env, round_num, rounds, all_sources, queries, qi, all_search_results,
                   result, searchVars, extractVars, callVars>>

\* ------------------------------------------- analysis, decision, synthesis
\* mutant: the round is appended before its analysis, which is set afterwards
Analyze_m ==
    /\ pc = "analyzing"
    /\ \E raw \in env.analyze :
          LET out == analyze_search_results(raw)
          IN  /\ a_call' = [made |-> TRUE, raw |-> raw, out |-> out]
              /\ rounds' = Append(rounds,
                    ResearchRound(round_num + 1, queries, all_search_results,
                                  extracted, out.value))
              /\ pc' = IF out.raised THEN "raised" ELSE "continue_decision"
    /\ UNCHANGED <<env, round_num, all_sources, queries, qi, all_search_results,
                   extracted, result, searchVars, extractVars, y_call, f_call,
                   cb_raised, y_count, announced>>
\* analyze_search_results(...); round_data.analysis = analysis; rounds.append
Analyze ==
    /\ pc = "analyzing"
    /\ \E raw \in env.analyze :
          LET out == analyze_search_results(raw)
          IN  /\ a_call' = [made |-> TRUE, raw |-> raw, out |-> out]
              /\ IF out.raised
                 THEN pc' = "raised" /\ UNCHANGED rounds
                 ELSE /\ rounds' = Append(rounds,
                            ResearchRound(round_num + 1, queries, all_search_results,
                                          extracted, out.value))
                      /\ pc' = "continue_decision"
    /\ UNCHANGED <<env, round_num, all_sources, queries, qi, all_search_results,
                   extracted, result, searchVars, extractVars, y_call, f_call,
                   cb_raised, y_count, announced>>

\* the two break conditions that follow rounds.append(round_data)
\* mutant: the gaps of the round are not looked at
StopAfterRound_m(rn, max_rounds, analysis) == rn >= max_rounds - 1
StopAfterRound(rn, max_rounds, analysis) ==
    rn >= max_rounds - 1 \/ ~Truthy(analysis.gaps)

ContinueDecision ==
    /\ pc = "continue_decision"
    /\ IF StopAfterRound(round_num, env.max_rounds, rounds[Len(rounds)].analysis)
       THEN pc' = "synthesizing" /\ UNCHANGED round_num
       ELSE pc' = "round_start" /\ round_num' = round_num + 1
    /\ UNCHANGED <<env, rounds, all_sources, queries, qi, all_search_results,
                   extracted, result, searchVars, extractVars, callVars>>

\* mutant: the report is generated a second time before the run ends
Synthesize_m ==
    /\ pc = "synthesizing"
    /\ y_count' = y_count + 1
    /\ \E raw \in env.synth :
          LET out == synthesize_research(raw, rounds)
          IN  /\ y_call' = [made |-> TRUE, raw |-> raw, out |-> out]
              /\ IF out.raised
                 THEN pc' = "raised" /\ UNCHANGED result
                 ELSE /\ result' = [returned |-> TRUE, final_report |-> out.value,
                                    rounds |-> rounds,
                                    all_sources |-> sorted(all_sources),
                                    total_rounds |-> Len(rounds)]
                      /\ pc' = IF y_count = 0 THEN "synthesizing" ELSE "done"
    /\ UNCHANGED <<env, round_num, rounds, all_sources, queries, qi, all_search_results,
                   extracted, searchVars, extractVars, a_call, f_call, cb_raised, announced>>
\* synthesize_research(topic, all_rounds_data); build the ResearchResult
Synthesize ==
    /\ pc = "synthesizing"
    /\ y_count' = y_count + 1
    /\ \E raw \in env.synth :
          LET out == synthesize_research(raw, rounds)
          IN  /\ y_call' = [made |-> TRUE, raw |-> raw, out |-> out]
              /\ IF out.raised
                 THEN pc' = "raised" /\ UNCHANGED result
                 ELSE /\ result' = [returned |-> TRUE, final_report |-> out.value,
                                    rounds |-> rounds,
                                    all_sources |-> sorted(all_sources),
                                    total_rounds |-> Len(rounds)]
                      /\ pc' = "done"
    /\ UNCHANGED <<env, round_num, rounds, all_sources, queries, qi, all_search_results,
                   extracted, searchVars, extractVars, a_call, f_call, cb_raised, announced>>

\* where conduct_research calls progress_callback: at the start of a round,
\* before each search, before the extraction, the analysis and the synthesis
AtCheckpoint ==
    \/ pc = "round_start" /\ round_num < env.max_rounds
    \/ pc = "searching" /\ s_pc = "idle" /\ qi <= Len(queries)
    \/ pc \in {"extract_call", "analyzing", "synthesizing"}

\* if progress_callback: progress_callback(...) -- the call raises, and
\* nothing around it catches
CallbackRaises ==
    /\ env.callback = "raises" /\ AtCheckpoint
    /\ pc' = "raised" /\ cb_raised' = TRUE
    /\ UNCHANGED <<env, round_num, rounds, all_sources, queries, qi, all_search_results,
                   extracted, result, searchVars, extractVars, a_call, y_call, f_call,
                   y_count, announced>>

Next ==
    \/ CallbackRaises
    \/ RoundStart
    \/ LoopExhausted
    \/ QuerySelectionFirst
    \/ QuerySelectionFollowUp
    \/ SearchCall
    \/ SearchAttemptOk
    \/ SearchAttemptFail
    \/ SearchReturn
    \/ SearchMultipleCall
    \/ SearchMultipleReturn
    \/ ExtractCall
    \/ \E i \in 1..Len(tasks) : TaskStart(i)
    \/ \E i \in 1..Len(tasks) : TaskCheckCache(i)
    \/ \E i \in 1..Len(tasks) : TaskFetchOk(i)
    \/ \E i \in 1..Len(tasks) : TaskFetchNetErr(i)
    \/ \E i \in 1..Len(tasks) : TaskFetchNone(i)
    \/ \E i \in 1..Len(tasks) : Collect(i)
    \/ ExtractReturn
    \/ Analyze
    \/ ContinueDecision
    \/ Synthesize

\* ----------------------------------------------------------- environments
Env(mr, rps, mw, provider, pages, an, fu, sy) ==
    [max_rounds |-> mr, results_per_search |-> rps, max_workers |-> mw,
     provider |-> provider, pages |-> pages, analyze |-> an, followup |-> fu,
     synth |-> sy, callback |-> "returns", entry |-> "conduct_research",
     queries |-> {}]

Ok(recs) == Attempt(FALSE, recs)
ReliablePages == [u \in URLs |-> {1}]
AnyPages == [u \in URLs |-> {NetErr, ParseErr, NoBody} \cup Texts]
FlakyPages == [u \in URLs |-> {NetErr} \cup Texts]

GoodDict == Dict(FV("arr", 2), FV("str", 1), FV("arr", 1), FV("arr", 1))
Object(d) == Raw("obj", 0, d)
WithGaps(g) == Object([GoodDict EXCEPT !.gaps = g])
Plain(k, len) == Raw(k, len, EmptyDict)

FieldValues ==
    {Absent, FV("null", 0)} \cup
    {FV(k, n) : k \in {"arr", "str", "num", "obj"}, n \in {0, 2}}

\* every shape of answer to the analysis prompt
AnalyzeMenu ==
    {Plain("fail", 0), Plain("none", 0), Plain("text", 0), Plain("text", 1),
     Plain("arr", 2), Plain("str", 2), Plain("num", 2), Plain("null", 0)}
    \cup {Object([GoodDict EXCEPT ![f] = v]) :
            f \in {"key_findings", "summary", "topics", "gaps"}, v \in FieldValues}
    \cup {Object(EmptyDict)}

\* every shape of answer to the follow-up prompt
FollowUpMenu ==
    {Plain("fail", 0), Plain("none", 0), Plain("text", 1), Plain("obj", 1),
     Plain("num", 2), Plain("null", 0)}
    \cup {Plain(k, n) : k \in {"arr", "str"}, n \in {0, 2, MaxLen}}

\* every shape of answer to the synthesis prompt
SynthMenu ==
    {SynthRaw("fail", FALSE, {}), SynthRaw("none", FALSE, {})}
    \cup {SynthRaw("text", h, m) : h \in BOOLEAN, m \in SUBSET (URLs \ {NoUrl})}

PlainReport == {SynthRaw("text", FALSE, {})}

\* provider answers over the raw records in A, at most n records each
RECURSIVE SeqsUpTo(_, _)
SeqsUpTo(A, n) ==
    IF n = 0 THEN {<<>>}
    ELSE LET S == SeqsUpTo(A, n - 1)
         IN  S \cup {Append(s, a) : s \in {t \in S : Len(t) = n - 1}, a \in A}

\* the round loop: every max_rounds, gaps or none, follow-ups or none
RoundWorlds ==
    {Env(mr, 1, 1, {Ok(<<1>>)}, ReliablePages,
         {WithGaps(FV("arr", 0)), WithGaps(FV("arr", 2))},
         {Plain("arr", 2), Plain("arr", 0)}, PlainReport) : mr \in 0..MaxRounds}

\* every shape of analysis answer, and every kind of synthesis over it
AnalyzeWorlds ==
    {Env(2, 1, 1, {Ok(<<1>>)}, ReliablePages, AnalyzeMenu,
         {Plain("arr", 1), Plain("text", 1)},
         {SynthRaw("fail", FALSE, {}), SynthRaw("text", FALSE, {}),
          SynthRaw("text", TRUE, {1})})}

\* every shape of follow-up answer over every shape of gaps
FollowUpWorlds ==
    {Env(2, 1, 1, {Ok(<<1>>)}, ReliablePages,
         {WithGaps(g) : g \in {Absent, FV("arr", 0), FV("arr", 2), FV("arr", MaxLen),
                               FV("str", 2), FV("str", MaxLen), FV("num", 2), FV("obj", 2)}},
         FollowUpMenu, PlainReport)}

\* a provider that fails at will, also while its records are converted
SearchWorlds ==
    {Env(1, rps, 1,
         {Attempt(TRUE, <<>>)} \cup {Ok(r) : r \in SeqsUpTo({BadRecord, 1}, rps)},
         ReliablePages, {WithGaps(FV("arr", 0))}, {Plain("arr", 1)}, PlainReport) :
        rps \in 1..MaxResults}

\* urls repeated, missing, empty and out of order, over two rounds
SourceWorlds ==
    {Env(2, 2, 1,
         {Attempt(TRUE, <<>>), Ok(<<MaxUrl, 1>>), Ok(<<1, NoHref>>), Ok(<<NoUrl>>),
          Ok(<<1, 1>>)},
         ReliablePages, {WithGaps(FV("arr", 0)), WithGaps(FV("arr", 1))},
         {Plain("arr", 2)}, SynthMenu)}

\* concurrent extraction of repeated urls whose fetches fail or differ
ExtractWorlds ==
    {Env(1, 3, mw, {Ok(<<1, 1, 2>>), Ok(<<1, 2, 1>>)}, AnyPages,
         {WithGaps(FV("arr", 0))}, {Plain("arr", 1)}, PlainReport) : mw \in 1..MaxWorkers}
    \cup
    {Env(2, 2, MaxWorkers, {Ok(<<1, 1>>)}, FlakyPages,
         {WithGaps(FV("arr", 1))}, {Plain("arr", 1)}, PlainReport)}

\* more search records in a round than urls are extracted
CapWorlds ==
    {Env(1, EXTRACT_LIMIT + 1, 1,
         {Ok([i \in 1..(EXTRACT_LIMIT + 1) |-> IF i <= EXTRACT_LIMIT THEN 1 ELSE 2])},
         ReliablePages, {WithGaps(FV("arr", 0))}, {Plain("arr", 1)}, PlainReport)}

\* two rounds in which a search or every extraction may fail
DeadPages == [u \in URLs |-> {NetErr, ParseErr}]
FailureWorlds ==
    {Env(2, 1, 1, {Attempt(TRUE, <<>>), Ok(<<1>>)}, DeadPages,
         {WithGaps(FV("arr", 1))}, {Plain("arr", 1)}, PlainReport)}

\* search_multiple called on its own, over a provider that may fail
MultiWorlds ==
    {[Env(1, 1, 1, {Attempt(TRUE, <<>>), Ok(<<1>>), Ok(<<MaxUrl>>)}, ReliablePages,
          {WithGaps(FV("arr", 0))}, {Plain("arr", 1)}, PlainReport)
        EXCEPT !.entry = "search_multiple",
               !.queries = {QuerySeq("model", n) : n \in 0..FOLLOW_UP_LIMIT}
                           \cup {<<Query("model", 1), Query("model", 1)>>}]}

\* an analysis answer that may be plain text in any round
MalformedWorlds ==
    {Env(MaxRounds, 1, 1, {Ok(<<1>>)}, ReliablePages,
         {WithGaps(FV("arr", 1)), Plain("text", 1)}, {Plain("arr", 1)}, PlainReport)}

\* no progress callback, or one that may raise whenever it is called
CallbackWorlds ==
    {[w EXCEPT !.callback = c] : w \in RoundWorlds, c \in {"none", "raises"}}

Worlds ==
    RoundWorlds \cup AnalyzeWorlds \cup FollowUpWorlds \cup SearchWorlds
    \cup SourceWorlds \cup ExtractWorlds \cup CallbackWorlds \cup CapWorlds
    \cup FailureWorlds \cup MultiWorlds \cup MalformedWorlds

Init == env \in Worlds /\ InitState

Spec == Init /\ [][Next]_vars

\* ================================================================== claims
StrictlySorted(s) == \A i, j \in 1..Len(s) : i < j => s[i] < s[j]
NumberedFromOne(rs) == \A i \in 1..Len(rs) : rs[i].round_number = i
InLoopBody == pc \in {"query_selection", "searching", "extract_call", "extracting",
                      "analyzing", "continue_decision"}

\* C1: the loop runs at most max_rounds iterations; at every point of a run
\* and in the returned result the round numbers are exactly 1..k, k <=
\* max_rounds, total_rounds = len(rounds); rounds are only ever appended.
C1_RoundsNumbered ==
    /\ [](/\ NumberedFromOne(rounds) /\ Len(rounds) <= env.max_rounds
          /\ round_num <= env.max_rounds
          /\ InLoopBody => round_num < env.max_rounds
          /\ result.returned =>
                /\ result.rounds = rounds
                /\ result.total_rounds = Len(result.rounds))
    /\ [][\/ rounds' = rounds
          \/ /\ Len(rounds') = Len(rounds) + 1
             /\ SubSeq(rounds', 1, Len(rounds)) = rounds]_vars

C1_Witness ==
    /\ pc = "done" /\ result.returned /\ result.total_rounds = MaxRounds
    /\ result.rounds[MaxRounds].round_number = MaxRounds

\* gaps holds nothing: it is absent, null, zero or of length 0
GapsEmpty(analysis) == analysis.gaps.k \in {"absent", "null"} \/ analysis.gaps.n = 0

\* C2: after a round is appended the loop moves to synthesis iff the round
\* index has reached max_rounds or the round's gaps is empty, and otherwise
\* starts the next round; max_rounds = 3 with empty gaps in round 1 gives
\* total_rounds = 1.
C2_ContinueDecision ==
    /\ [][pc = "continue_decision" =>
            IF round_num + 1 >= env.max_rounds \/ GapsEmpty(rounds[Len(rounds)].analysis)
            THEN pc' = "synthesizing" /\ rounds' = rounds
            ELSE pc' = "round_start" /\ round_num' = round_num + 1 /\ rounds' = rounds]_vars
    /\ [](result.returned /\ env.max_rounds = 3 /\ Len(result.rounds) >= 1
            /\ result.rounds[1].analysis.gaps = FV("arr", 0)
          => result.total_rounds = 1)

C2_Witness ==
    /\ pc = "done" /\ env.max_rounds = 3 /\ result.total_rounds = 1
    /\ result.rounds[1].analysis.gaps = FV("arr", 0)

\* every url field of every search record of the rounds, '' included
UrlsIn(rs) ==
    {u \in URLs : \E i \in 1..Len(rs) : \E j \in 1..Len(rs[i].search_results) :
                     rs[i].search_results[j].url = u}

\* C3 as stated: all_sources of a returned result is the deduplicated sorted
\* union of every url of every round's search records.
C3_AllUrls ==
    result.returned =>
        /\ StrictlySorted(result.all_sources)
        /\ Range(result.all_sources) = UrlsIn(result.rounds)

\* C3 amended: all_sources of a returned result is the deduplicated sorted
\* union of every non-empty url of every round's search records.
C3_NonEmptyUrls ==
    result.returned =>
        /\ StrictlySorted(result.all_sources)
        /\ Range(result.all_sources) = UrlsIn(result.rounds) \ {NoUrl}

C3_Witness ==
    /\ result.returned /\ Len(result.rounds) = 2
    /\ Len(result.all_sources) >= 2
    /\ UrlsIn(<<result.rounds[1]>>) # UrlsIn(<<result.rounds[2]>>)
    /\ \E j \in 1..Len(result.rounds[2].search_results) :
          result.rounds[2].search_results[j].url = NoUrl

AllFieldsPresent(d) ==
    \A f \in {"key_findings", "summary", "topics", "gaps"} : d[f].k # "absent"

\* C4: whatever the model answers (the call itself not failing), analyze
\* returns, never raises, and its result has all four fields.
C4_AnalyzeComplete ==
    a_call.made /\ a_call.raw.k # "fail" =>
        ~a_call.out.raised /\ AllFieldsPresent(a_call.out.value)

Settled == pc = "analyzing"
Succeeded == {tasks[i].url : i \in {j \in 1..Len(tasks) : tasks[j].ret # None}}

\* C5: the keys of the mapping extract_multiple returns are exactly the
\* input urls whose extract returned a text rather than None.
C5_ExactlySucceeded == Settled => Keys(extracted) = Succeeded

\* C6: a search whose every attempt failed made exactly MAX_RETRIES attempts
\* and returned the empty sequence; no search makes more attempts.
C6_SearchGivesUp ==
    /\ s_attempts <= MAX_RETRIES
    /\ s_pc = "returned" /\ retry_count = s_attempts =>
          s_attempts = MAX_RETRIES /\ s_ret = <<>>

C6_Witness ==
    /\ s_pc = "returned" /\ retry_count = s_attempts /\ s_attempts = MAX_RETRIES
    /\ s_results # <<>> /\ s_ret = <<>>

\* C7: search returns at most max_results records.
C7_AtMostMaxResults == s_pc = "returned" => Len(s_ret) <= env.results_per_search

\* C8: an extract(url) that starts after extract(url) has succeeded returns
\* the text of that success and issues no request.
C8_Idempotent ==
    \A i \in 1..Len(tasks) :
        tasks[i].st = "done" /\ tasks[i].prior # None =>
            tasks[i].ret = tasks[i].prior /\ tasks[i].fetches = 0

\* the report has a references section that enumerates srcs
HasReferences(report, srcs) ==
    \/ report.appended /\ report.section = srcs
    \/ report.heading /\ Range(srcs) \subseteq report.murls

\* C9: the report of every returned result has a references section that
\* enumerates all_sources.
C9_AlwaysReferences ==
    result.returned => HasReferences(result.final_report, result.all_sources)

\* C10: when the model's text lacks a references heading, the report carries
\* one appended section listing exactly the non-empty urls of all rounds, in
\* sorted order, and equal to all_sources of the result.
C10_AppendedSection ==
    result.returned /\ y_call.raw.k = "text" /\ ~y_call.raw.heading =>
        /\ result.final_report.appended
        /\ StrictlySorted(result.final_report.section)
        /\ Range(result.final_report.section) = UrlsIn(result.rounds) \ {NoUrl}
        /\ result.final_report.section = result.all_sources

C10_Witness ==
    /\ result.returned /\ y_call.raw.k = "text" /\ ~y_call.raw.heading
    /\ result.final_report.section = <<1, MaxUrl>>
    /\ Len(result.rounds) = 2
    /\ UrlsIn(<<result.rounds[1]>>) # UrlsIn(<<result.rounds[2]>>)

\* C11: a progress callback that raises at a checkpoint does not abort the
\* run: no run ends in an exception because its callback raised.
C11_CallbackIsolated == ~(cb_raised /\ pc = "raised")

\* the model call of synthesize was reached, and it failed
SynthCallFailed ==
    /\ y_call.made /\ y_call.raw.k = "fail"
    /\ \A i \in 1..Len(rounds) : rounds[i].analysis.key_findings.k # "obj"

\* C12: when the model call inside synthesize fails, synthesize does not
\* raise: it returns the minimal report made of each round's summary, in round
\* order, whatever the shape of the analyses stored in the rounds.
C12_FallbackNeverRaises ==
    SynthCallFailed =>
        /\ ~y_call.out.raised
        /\ y_call.out.value.kind = "fallback"
        /\ y_call.out.value.summaries =
              [i \in 1..Len(rounds) |-> rounds[i].analysis.summary]

\* the urls of the first EXTRACT_LIMIT search records
FirstUrls(sr) == {sr[j].url : j \in 1..Min(Len(sr), EXTRACT_LIMIT)}

\* C13: in every round the keys of extracted_contents are urls of the first
\* 10 search records of that round, so there are at most 10 of them; no more
\* than 10 urls are handed to the extractor.
C13_ExtractedFromFirstTen ==
    /\ \A i \in 1..Len(rounds) :
          /\ Keys(rounds[i].extracted_contents) \subseteq FirstUrls(rounds[i].search_results)
          /\ Cardinality(Keys(rounds[i].extracted_contents)) <= EXTRACT_LIMIT
    /\ pc = "analyzing" => Keys(extracted) \subseteq FirstUrls(all_search_results)
    /\ pc = "extracting" => Len(tasks) <= EXTRACT_LIMIT

C13_Witness ==
    /\ result.returned /\ Len(result.rounds) = 1
    /\ Len(result.rounds[1].search_results) > EXTRACT_LIMIT
    /\ Keys(result.rounds[1].extracted_contents) # {}
    /\ result.rounds[1].search_results[EXTRACT_LIMIT + 1].url
          \notin Keys(result.rounds[1].extracted_contents)

\* C14: round 1's queries are exactly [topic]; the queries of every later
\* round n are the value generate_follow_up_queries returned for the analysis
\* of round n-1 and the index n-1; with max_rounds = 1 a returned result has
\* exactly one round, with queries [topic].
C14_RoundQueries ==
    /\ Len(rounds) >= 1 => rounds[1].queries = <<Topic>>
    /\ pc \in {"searching", "extract_call", "extracting", "analyzing"} =>
          IF round_num = 0 THEN queries = <<Topic>>
          ELSE /\ f_call.made /\ ~f_call.out.raised /\ f_call.round_num = round_num
               /\ f_call.analysis = rounds[round_num].analysis
               /\ queries = f_call.out.value
    /\ \A n \in 2..Len(rounds) :
          f_call.round_num = n - 1 =>
              /\ ~f_call.out.raised /\ rounds[n].queries = f_call.out.value
              /\ f_call.analysis = rounds[n - 1].analysis
    /\ result.returned /\ env.max_rounds = 1 =>
          /\ result.total_rounds = 1 /\ Len(result.rounds) = 1
          /\ result.rounds[1].queries = <<Topic>>

C14_Witness ==
    /\ result.returned /\ Len(result.rounds) = MaxRounds
    /\ f_call.round_num = MaxRounds - 1
    /\ result.rounds[MaxRounds].queries = f_call.out.value
    /\ Len(result.rounds[MaxRounds].queries) = 2
    /\ result.rounds[1].queries = <<Topic>>

\* C15: when the follow-up generation for a round n > 1 returns no query,
\* the loop ends at once: the next step is the synthesis, no round n is
\* created or appended, nothing is searched, extracted or analyzed for it,
\* and the returned result holds the rounds 1..n-1.
C15_EmptyFollowUpEndsLoop ==
    /\ [][pc = "query_selection" /\ round_num > 0 /\ pc' # pc
            /\ ~f_call'.out.raised /\ f_call'.out.value = <<>>
          => /\ pc' = "synthesizing"
             /\ UNCHANGED <<rounds, round_num, all_sources, all_search_results,
                            extracted, searchVars, extractVars, a_call>>]_vars
    /\ [](result.returned /\ f_call.made /\ f_call.out = Return(<<>>)
            => result.total_rounds = f_call.round_num /\ result.rounds = rounds)

C15_Witness ==
    /\ result.returned /\ f_call.made /\ f_call.out = Return(<<>>)
    /\ f_call.round_num = 2 /\ result.total_rounds = 2
    /\ env.max_rounds > 2

\* C16: a failing search or extraction never aborts a round or the run.  No
\* run ends in an exception unless the callback, the analysis or the synthesis
\* raised; what search returns (the empty list after MAX_RETRIES failures
\* included) is added to the round and the round goes on; what
\* extract_multiple returns (the empty map when every url failed included)
\* becomes the round's contents; the round is appended with exactly these.
C16_FailuresIsolated ==
    /\ [](pc = "raised" => \/ cb_raised
                           \/ a_call.made /\ a_call.out.raised
                           \/ y_call.made /\ y_call.out.raised)
    /\ [](pc = "analyzing" /\ (\A i \in 1..Len(tasks) : tasks[i].ret = None)
            => extracted = EmptyMap)
    /\ [][pc = "searching" /\ s_pc = "returned"
          => /\ pc' \in {"searching", "extract_call"}
             /\ all_search_results' = all_search_results \o s_ret]_vars
    /\ [][pc = "extracting" /\ pc' # pc
          => pc' = "analyzing" /\ extracted' = x_results]_vars
    /\ [][pc = "analyzing" /\ pc' # pc /\ ~cb_raised' /\ ~a_call'.out.raised
          => /\ pc' = "continue_decision"
             /\ rounds' = Append(rounds,
                    ResearchRound(round_num + 1, queries, all_search_results,
                                  extracted, a_call'.out.value))]_vars

C16_Witness ==
    /\ result.returned /\ Len(result.rounds) = 2
    /\ result.rounds[1].search_results # <<>>
    /\ Keys(result.rounds[1].extracted_contents) = {}
    /\ result.rounds[2].search_results = <<>>
    /\ Keys(result.rounds[2].extracted_contents) = {}
    /\ s_attempts = MAX_RETRIES /\ retry_count = MAX_RETRIES
    /\ \E u \in URLs : cache[u] = None /\ u = result.rounds[1].search_results[1].url

\* C17 as stated: every returned result has at least one round, whatever
\* max_rounds is.
C17_AtLeastOneRound ==
    result.returned => result.total_rounds >= 1 /\ Len(result.rounds) >= 1

\* C17 amended: every result returned for max_rounds >= 1 has at least one
\* round, the first with queries [topic]; for max_rounds = 0 the returned
\* result has no round.
C17_AtLeastOneRoundIfAsked ==
    result.returned =>
        IF env.max_rounds >= 1
        THEN /\ result.total_rounds >= 1 /\ Len(result.rounds) >= 1
             /\ result.rounds[1].queries = <<Topic>>
        ELSE result.total_rounds = 0 /\ result.rounds = <<>>

C17_Witness ==
    /\ result.returned /\ env.max_rounds >= 2 /\ result.total_rounds = 1
    /\ f_call.made /\ f_call.out.value = <<>>
    /\ result.rounds[1].queries = <<Topic>>

\* C18: a failure of the model call propagates out of analyze and out of
\* generate_follow_up_queries as an exception, while in synthesize it is
\* caught and the minimal report is returned in its place.
C18_CallFailures ==
    /\ a_call.made /\ a_call.raw.k = "fail" => a_call.out.raised
    /\ f_call.made /\ f_call.raw.k = "fail" => f_call.out.raised
    /\ SynthCallFailed =>
          ~y_call.out.raised /\ y_call.out.value.kind = "fallback"

\* C19: extract_content always returns.  A call whose fetches all ended in
\* a network error returns None after exactly MAX_RETRIES fetches; a call
\* whose page could not be parsed or has no body returns None; no call makes
\* more than MAX_RETRIES fetches, and a task that failed leaves the results
\* of the other tasks alone.
C19_ExtractNeverRaises ==
    /\ [](\A i \in 1..Len(tasks) :
            /\ tasks[i].fetches <= MAX_RETRIES
            /\ tasks[i].st = "done" =>
                  /\ tasks[i].last \in {"cached", "text", "neterr", "unparsed"}
                  /\ tasks[i].last = "neterr" =>
                        /\ tasks[i].ret = None
                        /\ tasks[i].fetches = MAX_RETRIES
                        /\ tasks[i].retry_count = MAX_RETRIES
                  /\ tasks[i].last = "unparsed" => tasks[i].ret = None
                  /\ tasks[i].ret = None => tasks[i].last \in {"neterr", "unparsed"})
    /\ [][\A i \in 1..Len(tasks) :
            Len(tasks') = Len(tasks) /\ tasks[i].st = "done" /\ pc' = pc
            => tasks'[i].ret = tasks[i].ret]_vars

C19_Witness ==
    /\ pc = "analyzing" /\ Len(tasks) = 3
    /\ tasks[1].last = "neterr" /\ tasks[1].ret = None
    /\ tasks[1].fetches = MAX_RETRIES
    /\ tasks[2].last = "unparsed" /\ tasks[2].ret = None
    /\ tasks[3].last = "text" /\ tasks[3].ret = extracted[tasks[3].url]

\* C20: at every moment of extract_multiple the number of extract_content
\* calls in progress is at most max_workers, however many urls were given.
C20_BoundedConcurrency == Cardinality(Busy) <= env.max_workers

C20_Witness ==
    /\ pc = "extracting" /\ Len(tasks) > env.max_workers
    /\ env.max_workers = 2 /\ Cardinality(Busy) = env.max_workers
    /\ \E i \in 1..Len(tasks) : tasks[i].st = "queued"
    /\ \A i \in Busy : tasks[i].st = "fetching"

\* the phase a run may enter next from phase p
PhasesAfter(p) ==
    IF p = "round_start" THEN {"query_selection", "synthesizing", "raised"}
    ELSE IF p = "query_selection" THEN {"searching", "synthesizing"}
    ELSE IF p = "searching" THEN {"searching", "extract_call", "raised"}
    ELSE IF p = "extract_call" THEN {"extracting", "raised"}
    ELSE IF p = "extracting" THEN {"extracting", "analyzing"}
    ELSE IF p = "analyzing" THEN {"continue_decision", "raised"}
    ELSE IF p = "continue_decision" THEN {"round_start", "synthesizing"}
    ELSE IF p = "synthesizing" THEN {"done", "raised"}
    ELSE {}
ResearchPhases ==
    {"round_start", "query_selection", "searching", "extract_call", "extracting",
     "analyzing", "continue_decision", "synthesizing", "done", "raised"}

\* C21: the phases of a round follow one another in the order query
\* selection, searching, extracting, analyzing, continue decision.  The
\* extraction starts only when the last search of the round has returned; the
\* analysis starts only when every extraction task of the round has settled;
\* the synthesis starts only when no round is under way, and a result is
\* returned only by the synthesis.
C21_PhaseOrder ==
    /\ [][(pc \in ResearchPhases /\ pc' # pc) => pc' \in PhasesAfter(pc)]_vars
    /\ [](pc \in {"extract_call", "extracting", "analyzing", "continue_decision"}
            => s_pc = "idle" /\ qi = Len(queries))
    /\ [][pc = "searching" /\ pc' = "extract_call"
          => s_pc = "returned" /\ qi = Len(queries)]_vars
    /\ [](pc \in {"analyzing", "continue_decision"}
            => \A i \in 1..Len(tasks) : tasks[i].st = "done" /\ tasks[i].collected)
    /\ [](pc \in {"synthesizing", "done"} => Len(rounds) \in {round_num, round_num + 1})
    /\ [](pc = "synthesizing" /\ Len(rounds) = round_num
            => queries = <<>> \/ round_num >= env.max_rounds)
    /\ [](result.returned <=> pc = "done")

C21_Witness ==
    /\ pc = "analyzing" /\ round_num = 1 /\ Len(tasks) = 2
    /\ tasks[1].ret = None /\ tasks[2].ret # None
    /\ s_pc = "idle" /\ qi = Len(queries)

\* the waits made once `failed` attempts have failed: RETRY_DELAY * 2^(k-1)
\* after the failed attempt k, none after attempt MAX_RETRIES
Backoff(failed) ==
    [k \in 1..Min(failed, MAX_RETRIES - 1) |-> RETRY_DELAY * 2^(k - 1)]

\* C22: search and extract_content make at most MAX_RETRIES attempts; the
\* wait after the failed attempt k < MAX_RETRIES is RETRY_DELAY * 2^(k-1) and
\* no wait follows the last failed attempt.
C22_Backoff ==
    /\ s_attempts <= MAX_RETRIES /\ retry_count <= MAX_RETRIES
    /\ s_sleeps = Backoff(retry_count)
    /\ \A i \in 1..Len(tasks) :
          /\ tasks[i].fetches <= MAX_RETRIES /\ tasks[i].retry_count <= MAX_RETRIES
          /\ tasks[i].sleeps = Backoff(tasks[i].retry_count)

C22_Witness ==
    /\ pc = "analyzing" /\ Len(tasks) = 1
    /\ s_attempts = MAX_RETRIES /\ retry_count = MAX_RETRIES - 1
    /\ s_sleeps = <<RETRY_DELAY, 2 * RETRY_DELAY>>
    /\ tasks[1].retry_count = MAX_RETRIES /\ tasks[1].fetches = MAX_RETRIES
    /\ tasks[1].sleeps = <<RETRY_DELAY, 2 * RETRY_DELAY>>

\* C23: a run that returns has called synthesize_research exactly once, when
\* the round loop was over, whatever ended the loop; the final_report of the
\* result is the value of that call.  No run calls it twice, and nothing of
\* the loop runs after the call.
C23_SynthesisOnce ==
    /\ [](y_count <= 1)
    /\ [](y_count > 0 => pc \in {"done", "raised"})
    /\ [](result.returned =>
            /\ y_count = 1 /\ y_call.made /\ ~y_call.out.raised
            /\ result.final_report = y_call.out.value)
    /\ [][y_count' # y_count => pc = "synthesizing" /\ y_count' = y_count + 1]_vars

C23_Witness ==
    /\ result.returned /\ y_count = 1 /\ result.rounds = <<>>
    /\ result.final_report = y_call.out.value
    /\ result.final_report.kind = "model"

\* C24: for every answer that is valid JSON (an array, a string, an object,
\* a number) generate_follow_up_queries returns at most 3 queries, each one a
\* whole query string of the model, so that a round n > 1 makes at most 3
\* searches, each for a whole query string.
C24_AtMostThreeQueryStrings ==
    /\ f_call.made /\ f_call.raw.k \in {"arr", "str", "obj", "num"} =>
          /\ ~f_call.out.raised
          /\ Len(f_call.out.value) <= FOLLOW_UP_LIMIT
          /\ \A i \in 1..Len(f_call.out.value) : f_call.out.value[i].src = "model"
    /\ pc \in {"searching", "extract_call", "extracting", "analyzing"} /\ round_num > 0 =>
          /\ Len(queries) <= FOLLOW_UP_LIMIT
          /\ \A i \in 1..Len(queries) : queries[i].src \in {"model", "gap"}

\* C25: when the follow-up answer is not valid JSON,
\* generate_follow_up_queries does not raise and returns the first 3 entries
\* of the previous analysis' gaps, in order (the first characters when gaps
\* is a string), or the empty sequence when gaps is empty or absent.
C25_FallbackToGaps ==
    f_call.made /\ f_call.raw.k = "text" =>
        /\ ~f_call.out.raised
        /\ f_call.out.value =
              IF GapsEmpty(f_call.analysis) THEN <<>>
              ELSE QuerySeq(IF f_call.analysis.gaps.k = "str" THEN "gapchar" ELSE "gap",
                            Min(f_call.analysis.gaps.n, FOLLOW_UP_LIMIT))

\* C26: searches are never concurrent and are throttled: in search_multiple
\* and in the searching of a round alike, a search starts only when no other
\* search is under way, and every search but the first of its loop starts
\* only after the fixed inter-query delay has been slept.
C26_SearchesThrottled ==
    [][s_pc' = "attempt" /\ s_pc # "attempt"
       => s_pc = "idle" /\ (qi > 1 => throttled)]_vars

\* C27: an analysis answer that is not valid JSON gives a degraded analysis
\* with gaps = []; the round is appended, the loop stops after it whatever
\* max_rounds is, no follow-up generation follows it, and the synthesis is
\* next.
C27_MalformedAnalysisStops ==
    /\ [](a_call.made /\ a_call.raw.k = "text" =>
            /\ ~a_call.out.raised /\ a_call.out.value.gaps = FV("arr", 0)
            /\ pc \in {"continue_decision", "synthesizing", "done", "raised"}
            /\ Len(rounds) = round_num + 1
            /\ rounds[Len(rounds)].analysis = a_call.out.value
            /\ f_call.made => f_call.round_num <= round_num
            /\ result.returned => result.total_rounds = round_num + 1)
    /\ [][pc = "continue_decision" /\ a_call.raw.k = "text"
          => pc' = "synthesizing" /\ UNCHANGED <<rounds, round_num, f_call>>]_vars

C27_Witness ==
    /\ result.returned /\ a_call.raw.k = "text" /\ env.max_rounds = MaxRounds
    /\ result.total_rounds = 2 /\ f_call.made /\ f_call.round_num = 1
    /\ result.rounds[1].analysis.gaps.n > 0

\* C28: when generate_follow_up_queries raises while the queries of a round
\* n > 1 are selected, the exception does not leave conduct_research: the
\* query list is taken as empty, no round n is created, the synthesis is
\* next, and a returned result holds the rounds 1..n-1.
C28_FollowUpFailureSwallowed ==
    /\ [][pc = "query_selection" /\ round_num > 0 /\ pc' # pc /\ f_call'.out.raised
          => /\ pc' = "synthesizing" /\ queries' = <<>>
             /\ UNCHANGED <<rounds, round_num, all_sources, all_search_results,
                            extracted, searchVars, extractVars, a_call>>]_vars
    /\ [](f_call.made /\ f_call.out.raised =>
            /\ pc \in {"synthesizing", "done", "raised"}
            /\ Len(rounds) = f_call.round_num
            /\ pc = "raised" => cb_raised \/ (y_call.made /\ y_call.out.raised)
            /\ result.returned =>
                  result.rounds = rounds /\ result.total_rounds = f_call.round_num)

C28_Witness ==
    /\ result.returned /\ f_call.made /\ f_call.out.raised
    /\ f_call.raw.k = "fail" /\ f_call.round_num = 1
    /\ result.total_rounds = 1 /\ env.max_rounds > 1

\* C29: within one extract_multiple call no url is fetched by more than one
\* task, also when the url occurs twice in the input or is being extracted by
\* another worker at the same time.
C29_NoDuplicateFetch ==
    \A i, j \in 1..Len(tasks) :
        i # j /\ tasks[i].url = tasks[j].url =>
            ~(tasks[i].fetches > 0 /\ tasks[j].fetches > 0)

\* C30: the cache holds only texts of extractions that succeeded; an
\* extract_content that returns None leaves the cache as it was, and a call
\* for a url the cache does not hold goes on to the network.
C30_CacheOnlySuccesses ==
    /\ [](\A u \in URLs : cache[u] # None => cache[u] \in Texts /\ firstText[u] # None)
    /\ [][\A i \in 1..Len(tasks) :
            (pc' = pc /\ Len(tasks') = Len(tasks) /\ tasks[i].st # "done"
             /\ tasks'[i].st = "done" /\ tasks'[i].ret = None)
            => cache' = cache]_vars
    /\ [][\A i \in 1..Len(tasks) :
            (pc' = pc /\ Len(tasks') = Len(tasks) /\ tasks[i].st = "started"
             /\ tasks'[i].st # "started" /\ cache[tasks[i].url] = None)
            => tasks'[i].st = "fetching"]_vars

C30_Witness ==
    /\ pc = "extracting" /\ env.max_workers = 1 /\ Len(tasks) >= 2
    /\ tasks[1].url = tasks[2].url
    /\ tasks[1].st = "done" /\ tasks[1].ret = None /\ tasks[1].last = "unparsed"
    /\ tasks[2].last = "text" /\ tasks[2].fetches = 1
    /\ cache[tasks[2].url] = tasks[2].ret

\* a run in which no call raised, inside or outside a try block: the searches,
\* the fetches, the model calls and the parsing of their answers
NoCallRaised ==
    /\ \A o \in env.provider : ~Fails(o)
    /\ \A u \in URLs : env.pages[u] \cap {NetErr, ParseErr} = {}
    /\ \A raw \in env.analyze \cup env.followup : raw.k \notin {"fail", "none", "text"}
    /\ f_call.made => ~f_call.out.raised
    /\ y_call.made => y_call.raw.k = "text" /\ ~y_call.out.raised
    /\ ~cb_raised

\* C31: in a run where no call raises, every round index announced by a
\* round-start progress notification belongs to a round that is completed and
\* appended: the returned result has as many rounds as distinct indices were
\* announced, and they are the announced ones.
C31_AnnouncedRoundsCompleted ==
    result.returned /\ env.callback = "returns" /\ NoCallRaised
        => /\ Cardinality(announced) = result.total_rounds
           /\ announced = {result.rounds[i].round_number : i \in 1..Len(result.rounds)}

\* the analysis of round n raised: the last analyze call, made in round n
AnalyzeRaisedIn(n) == a_call.made /\ a_call.out.raised /\ round_num = n - 1

\* C32: every round in rounds is complete at every point of a run.  A round is
\* appended only by the analysis step, when the searches of all its queries
\* and all its extraction tasks have returned and the analysis has returned,
\* and it holds those queries (not empty), records, contents and that
\* analysis; a round already in rounds never changes.  If the analysis of
\* round n raises, conduct_research raises, rounds has no round n and no result
\* is returned.
C32_RoundsComplete ==
    /\ [](\A i \in 1..Len(rounds) :
            /\ rounds[i].queries # <<>>
            /\ rounds[i].analysis \in {analyze_search_results(raw).value :
                    raw \in {r \in env.analyze : ~analyze_search_results(r).raised}})
    /\ [][rounds' # rounds
          => /\ pc = "analyzing" /\ s_pc = "idle" /\ qi = Len(queries)
             /\ \A i \in 1..Len(tasks) : tasks[i].collected
             /\ a_call'.made /\ ~a_call'.out.raised
             /\ rounds' = Append(rounds,
                    [round_number |-> round_num + 1, queries |-> queries,
                     search_results |-> all_search_results,
                     extracted_contents |-> extracted,
                     analysis |-> a_call'.out.value])]_vars
    /\ [](\A n \in 1..MaxRounds + 1 : AnalyzeRaisedIn(n)
            => /\ pc = "raised" /\ ~result.returned
               /\ \A i \in 1..Len(rounds) : rounds[i].round_number # n)

\* the analysis of round 2 raised after round 1 was appended
C32_Witness ==
    /\ AnalyzeRaisedIn(2) /\ ~cb_raised /\ pc = "raised"
    /\ Len(rounds) = 1 /\ rounds[1].round_number = 1
    /\ rounds[1].queries = <<Topic>> /\ Truthy(rounds[1].analysis.gaps)

====
